---------------------------- MODULE Spec2Model ----------------------------
(***************************************************************************)
(* Model of prepare_data.py: the per-file event selection, the worker pool *)
(* that runs it over a list of input files, the merge of the per-file      *)
(* results and main's decision to write the output file.                   *)
(*                                                                         *)
(* The script is Python 2 (its sibling run_classifiers.py uses xrange and  *)
(* adds a list to the result of map), so filter() returns a list that can  *)
(* be iterated more than once.                                             *)
(*                                                                         *)
(* numpy arrays are sequences, np.concatenate is \o, a dict is a function  *)
(* whose DOMAIN is its key set, and a raised exception is an outcome       *)
(* record [kind |-> "raise"].                                              *)
(***************************************************************************)
EXTENDS Integers, Sequences, FiniteSets

\* Bounds of the model.
MaxFiles == 2
MaxBatchEvents == 3
MaxWorkers == 2
MaxEvents == 2
MaxJets == 2
MaxResults == 2
MaxRows == 1

VARIABLES
    input_files,  \* main: the input file list (one record per file)
    num_workers,  \* args.num_workers
    pc,           \* main's position
    taskState,    \* pool: each submitted task "queued" | "running" | "done"
    taskOut,      \* pool: each task's AsyncResult (returned value or raised error)
    outqueue,     \* pool: the tasks in the order their results were posted
    got,          \* process_files_parallel: the tasks whose r.get() returned, in order
    data,         \* main: the merged dataset returned by process_files_parallel
    err,          \* the exception that left main and the call that raised it
    output,       \* the npz file on disk
    evIn,         \* process_events: the table it is given
    evOut,        \* process_events: the table it returned
    mgIn,         \* merge_results: the list it is given
    mgOut         \* merge_results: its outcome

vars == <<input_files, num_workers, pc, taskState, taskOut, outqueue, got,
          data, err, output, evIn, evOut, mgIn, mgOut>>

----------------------------------------------------------------------------
(* Values *)

SeqsUpTo(S, n) == UNION {[1..k -> S] : k \in 0..n}

EmptyDict == [k \in {} |-> <<>>]

\* A per-file result: Python's None, or a dict of arrays.
None == [none |-> TRUE, cols |-> EmptyDict]

Some(d) == [none |-> FALSE, cols |-> d]

\* The outcome of a call: a returned value or a raised exception.
Ret(v) == [kind |-> "return", value |-> v, err |-> "none"]

Raise(e) == [kind |-> "raise", value |-> None, err |-> e]

NotRun == [kind |-> "pending", value |-> None, err |-> "none"]

NoErr == [type |-> "none", at |-> "none"]

RECURSIVE SeqSum(_)
SeqSum(s) == IF s = <<>> THEN 0 ELSE Head(s) + SeqSum(Tail(s))

RECURSIVE Concat(_)
Concat(ss) == IF ss = <<>> THEN <<>> ELSE Head(ss) \o Concat(Tail(ss))

\* x[mask] for a boolean mask with one entry per element of x.
BoolIndex(x, mask) ==
    LET F[i \in 0..Len(x)] ==
            IF i = 0 THEN <<>>
            ELSE IF mask[i] THEN Append(F[i - 1], x[i]) ELSE F[i - 1]
    IN  F[Len(x)]

\* d with key k set to v (d[k] = v on a Python dict).
DictSet(d, k, v) ==
    [x \in DOMAIN d \cup {k} |-> IF x = k THEN v ELSE d[x]]

----------------------------------------------------------------------------
(* The reader's table *)

\* The values of branch_dict: the column names the reader returns.
BranchKeys ==
    {"eventNumber", "proc", "clusEta", "clusPhi", "clusE", "clusEM",
     "fatJetPt", "fatJetEta", "fatJetPhi", "fatJetM",
     "trackPt", "trackEta", "trackPhi"}

\* A jet is its transverse momentum and pseudorapidity, each as the side of
\* the object selection's threshold it lies on.
JetKinds ==
    {[pt |-> "hard", eta |-> "central"],
     [pt |-> "soft", eta |-> "central"],
     [pt |-> "hard", eta |-> "forward"]}

\* The table root2array yields for file fid holding the events jets (one
\* sequence of jets per event). A jet's phi is its position in the event's
\* collection and its mass ten times that; every other column holds the
\* event's identity <<fid, row>>.
ReaderTable(fid, jets) ==
    [k \in BranchKeys |->
        [r \in 1..Len(jets) |->
            CASE k = "fatJetPt"  -> [j \in 1..Len(jets[r]) |-> jets[r][j].pt]
              [] k = "fatJetEta" -> [j \in 1..Len(jets[r]) |-> jets[r][j].eta]
              [] k = "fatJetPhi" -> [j \in 1..Len(jets[r]) |-> j]
              [] k = "fatJetM"   -> [j \in 1..Len(jets[r]) |-> 10 * j]
              [] OTHER           -> <<fid, r>>]]

----------------------------------------------------------------------------
(* physics_selections *)

\* One boolean per jet: above the minimum pt and inside the maximum |eta|.
select_fatjets(fatjet_pts, fatjet_etas) ==
    [j \in 1..Len(fatjet_pts) |->
        fatjet_pts[j] = "hard" /\ fatjet_etas[j] = "central"]

\* Per event, keep the selected jets of every given per-jet column.
filter_objects(obj_idx, obj_array) ==
    [r \in 1..Len(obj_array) |-> BoolIndex(obj_array[r], obj_idx[r])]

\* Keep the selected events of a column.
filter_events(event_idx, array) == BoolIndex(array, event_idx)

\* Baseline: at least one jet survived the object selection.
is_baseline_event(fatjet_pts) == Len(fatjet_pts) > 0

sum_fatjet_mass(fatjet_ms) == SeqSum(fatjet_ms)

\* The separation of the two leading jets, left uninterpreted.
fatjet_deta12(fatjet_etas) == <<"deta12", fatjet_etas>>

\* The two signal regions, fixed predicates of (count, summed mass,
\* separation), left uninterpreted.
pass_sr4j(n, m, d) == <<"sr4j", n, m, d>>

pass_sr5j(n, m, d) == <<"sr5j", n, m, d>>

logical_or(a, b) == <<"or", a, b>>

----------------------------------------------------------------------------
(* process_events *)

\* Line 112 with the mask dropped: the column is re-attached unskimmed.
reattach_unskimmed(table, skimIdx, k) == table[k]

\* skimData[k] = data[k][skimIdx]
reattach(table, skimIdx, k) == BoolIndex(table[k], skimIdx)

\* The bookkeeping columns with the two counts swapped.
bookkeeping_swapped(num_total, num_baseline) ==
    [totalEvents |-> <<num_baseline>>, skimEvents |-> <<num_total>>]

bookkeeping(num_total, num_baseline) ==
    [totalEvents |-> <<num_total>>, skimEvents |-> <<num_baseline>>]

SkimKeys ==
    {"fatJetPt", "fatJetEta", "fatJetPhi", "fatJetM",
     "sumFatJetM", "passSR4J", "passSR5J", "passSR"}

process_events(table) ==
    LET n == Len(table["fatJetPt"])
        jetIdx == [r \in 1..n |->
                     select_fatjets(table["fatJetPt"][r], table["fatJetEta"][r])]
        objPt == filter_objects(jetIdx, table["fatJetPt"])
        objEta == filter_objects(jetIdx, table["fatJetEta"])
        objPhi == filter_objects(jetIdx, table["fatJetPhi"])
        objM == filter_objects(jetIdx, table["fatJetM"])
        skimIdx == [r \in 1..n |-> is_baseline_event(objPt[r])]
        fatJetPt == filter_events(skimIdx, objPt)
        fatJetEta == filter_events(skimIdx, objEta)
        fatJetPhi == filter_events(skimIdx, objPhi)
        fatJetM == filter_events(skimIdx, objM)
        num_baseline == Cardinality({r \in 1..n : skimIdx[r]})
        num_total == Len(skimIdx)
        numFatJet == [r \in 1..Len(fatJetPt) |-> Len(fatJetPt[r])]
        sumFatJetM == [r \in 1..Len(fatJetM) |-> sum_fatjet_mass(fatJetM[r])]
        fatJetDEta12 == [r \in 1..Len(fatJetEta) |-> fatjet_deta12(fatJetEta[r])]
        passSR4J == [r \in 1..Len(numFatJet) |->
                       pass_sr4j(numFatJet[r], sumFatJetM[r], fatJetDEta12[r])]
        passSR5J == [r \in 1..Len(numFatJet) |->
                       pass_sr5j(numFatJet[r], sumFatJetM[r], fatJetDEta12[r])]
        passSR == [r \in 1..Len(passSR4J) |-> logical_or(passSR4J[r], passSR5J[r])]
        derived ==
            IF num_baseline > 0
            THEN [sumFatJetM |-> sumFatJetM, passSR4J |-> passSR4J,
                  passSR5J |-> passSR5J, passSR |-> passSR]
            ELSE [sumFatJetM |-> <<>>, passSR4J |-> <<>>,
                  passSR5J |-> <<>>, passSR |-> <<>>]
        book == bookkeeping(num_total, num_baseline)
        keys == DOMAIN table \ SkimKeys
    IN  [k \in SkimKeys \cup keys \cup {"totalEvents", "skimEvents"} |->
            CASE k = "fatJetPt"       -> fatJetPt
              [] k = "fatJetEta"      -> fatJetEta
              [] k = "fatJetPhi"      -> fatJetPhi
              [] k = "fatJetM"        -> fatJetM
              [] k \in DOMAIN derived -> derived[k]
              [] k \in DOMAIN book    -> book[k]
              [] OTHER                -> reattach(table, skimIdx, k)]

----------------------------------------------------------------------------
(* process_events on its own: a table in, a table out *)

\* The events of one table: up to MaxJets jets each. A table holds at least
\* one event: np.vectorize(is_baseline_event) is built without otypes and
\* numpy refuses to call such a function on a size-0 input, so a table with
\* no events is outside the inputs modelled here.
EventJets == SeqsUpTo(JetKinds, MaxJets)

InitEvents ==
    /\ input_files = <<>>
    /\ num_workers = 1
    /\ pc = "idle"
    /\ taskState = <<>>
    /\ taskOut = <<>>
    /\ outqueue = <<>>
    /\ got = <<>>
    /\ data = EmptyDict
    /\ err = NoErr
    /\ output = [written |-> FALSE, cols |-> EmptyDict]
    /\ \E jets \in SeqsUpTo(EventJets, MaxEvents) :
          /\ Len(jets) >= 1
          /\ evIn = ReaderTable(1, jets)
    /\ evOut = None
    /\ mgIn = <<>>
    /\ mgOut = NotRun

ApplyProcessEvents ==
    /\ evOut = None
    /\ evOut' = Some(process_events(evIn))
    /\ UNCHANGED <<input_files, num_workers, pc, taskState, taskOut, outqueue,
                   got, data, err, output, evIn, mgIn, mgOut>>

NextEvents == ApplyProcessEvents

SpecEvents == InitEvents /\ [][NextEvents]_vars

----------------------------------------------------------------------------
(* Cross sections *)

KnownSample == "qcd_JZ3"

UnknownSample == "unlisted"

Samples == {KnownSample, UnknownSample}

\* XsecMap.load_xsec_map: the table read from data/cross_sections.txt.
load_xsec_map == [s \in {KnownSample} |-> <<"xsec", s>>]

\* A lookup that defaults instead of raising (dict.get).
get_xsec_default(filename) ==
    IF filename[1] \in DOMAIN load_xsec_map
    THEN Ret(load_xsec_map[filename[1]])
    ELSE Ret(<<"xsec", "default">>)

\* A file name <<sample, n>> stands for "<sample>-<n>.root": the sample is
\* what precedes the first '-' of the base name. cls._xsecMap[sample] raises
\* KeyError for a sample the table lacks.
get_xsec(filename) ==
    IF filename[1] \in DOMAIN load_xsec_map
    THEN Ret(load_xsec_map[filename[1]])
    ELSE Raise("KeyError")

----------------------------------------------------------------------------
(* The per-file processor *)

\* get_data without its except clause: the reader's IOError leaves it.
get_data_uncaught(file) ==
    IF file.readable
    THEN Ret(Some(ReaderTable(file.name[2], file.jets)))
    ELSE Raise("IOError")

\* root2array raises IOError for a file it cannot read; get_data logs it and
\* returns None. Otherwise the structured array becomes a dict of columns
\* under the new names. file.jets are the events read, after the cap
\* stop=max_events.
get_data(file) ==
    IF file.readable
    THEN Ret(Some(ReaderTable(file.name[2], file.jets)))
    ELSE Ret(None)

\* The per-file processor with the cross section looked up first.
filter_delphes_to_numpy_xsec_first(file) ==
    LET x == get_xsec(file.name)
        read == get_data(file)
    IN  IF x.kind = "raise" THEN x
        ELSE IF read.kind = "raise" THEN read
        ELSE IF read.value = None THEN Ret(None)
        ELSE Ret(Some(DictSet(DictSet(process_events(read.value.cols),
                                      "inputFile", <<file.name>>),
                              "xsec", <<x.value>>)))

filter_delphes_to_numpy(file) ==
    LET read == get_data(file)
    IN  IF read.kind = "raise" THEN read
        ELSE IF read.value = None THEN Ret(None)
        ELSE LET skimData == DictSet(process_events(read.value.cols),
                                     "inputFile", <<file.name>>)
                 x == get_xsec(file.name)
             IN  IF x.kind = "raise" THEN x
                 ELSE Ret(Some(DictSet(skimData, "xsec", <<x.value>>)))

----------------------------------------------------------------------------
(* merge_results *)

\* No filtering: the failure sentinels stay in the list.
drop_failed_kept(dicts) == dicts

\* dicts = filter(None, dicts): None and an empty dict are falsy.
drop_failed(dicts) ==
    SelectSeq(dicts, LAMBDA d : ~d.none /\ DOMAIN d.cols # {})

\* [d[key] for d in dicts if key in d]: a dict lacking the key is skipped.
arrays_skip_missing(dicts, key) ==
    LET have == SelectSeq(dicts, LAMBDA d : key \in DOMAIN d.cols)
    IN  Ret([i \in 1..Len(have) |-> have[i].cols[key]])

\* arrays = [d[key] for d in dicts]: d[key] raises KeyError when d lacks key.
arrays(dicts, key) ==
    IF \E i \in 1..Len(dicts) : key \notin DOMAIN dicts[i].cols
    THEN Raise("KeyError")
    ELSE Ret([i \in 1..Len(dicts) |-> dicts[i].cols[key]])

\* d.keys() on None raises AttributeError.
merge_results(dicts) ==
    LET kept == drop_failed(dicts)
        keys == UNION {DOMAIN kept[i].cols : i \in 1..Len(kept)}
    IN  IF \E i \in 1..Len(kept) : kept[i].none THEN Raise("AttributeError")
        ELSE IF \E key \in keys : arrays(kept, key).kind = "raise"
        THEN arrays(kept, CHOOSE key \in keys : arrays(kept, key).kind = "raise")
        ELSE Ret([key \in keys |-> Concat(arrays(kept, key).value)])

----------------------------------------------------------------------------
(* merge_results on its own: a list in, a dataset or an error out *)

MergeKeys == {"skimEvents", "eventNumber"}

\* The per-file results merge_results is tried on: None, or a dict over any
\* non-empty subset of MergeKeys with arrays of up to MaxRows rows.
MergeInputs ==
    {None} \cup
    {Some(d) : d \in UNION {[K -> SeqsUpTo({1}, MaxRows)] :
                              K \in SUBSET MergeKeys \ {{}}}}

InitMerge ==
    /\ input_files = <<>>
    /\ num_workers = 1
    /\ pc = "idle"
    /\ taskState = <<>>
    /\ taskOut = <<>>
    /\ outqueue = <<>>
    /\ got = <<>>
    /\ data = EmptyDict
    /\ err = NoErr
    /\ output = [written |-> FALSE, cols |-> EmptyDict]
    /\ evIn = EmptyDict
    /\ evOut = None
    /\ mgIn \in SeqsUpTo(MergeInputs, MaxResults)
    /\ mgOut = NotRun

ApplyMergeResults ==
    /\ mgOut = NotRun
    /\ mgOut' = merge_results(mgIn)
    /\ UNCHANGED <<input_files, num_workers, pc, taskState, taskOut, outqueue,
                   got, data, err, output, evIn, evOut, mgIn>>

NextMerge == ApplyMergeResults

SpecMerge == InitMerge /\ [][NextMerge]_vars

----------------------------------------------------------------------------
(* The batch: main, process_files_parallel and the pool's workers *)

HardCentral == [pt |-> "hard", eta |-> "central"]

Soft == [pt |-> "soft", eta |-> "central"]

\* The events of a batch's files: one whose second jet passes the object
\* selection and one with no passing jet.
BatchEventJets == {<<Soft, HardCentral>>, <<Soft>>}

\* A file of the list: whether root2array can read it, its name and, when
\* readable, its events (at least one).
Files(i) ==
    {[readable |-> TRUE, name |-> <<s, i>>, jets |-> j] :
        s \in Samples,
        j \in SeqsUpTo(BatchEventJets, MaxBatchEvents) \ {<<>>}}
    \cup
    {[readable |-> FALSE, name |-> <<s, i>>, jets |-> <<>>] : s \in Samples}

NoOutput == [written |-> FALSE, cols |-> EmptyDict]

Init ==
    /\ \E n \in 0..MaxFiles :
          /\ input_files \in [1..n -> UNION {Files(i) : i \in 1..n}]
          /\ \A i \in 1..n : input_files[i].name[2] = i
          /\ SeqSum([i \in 1..n |-> Len(input_files[i].jets)]) <= MaxBatchEvents
    /\ num_workers \in 1..MaxWorkers
    /\ pc = "start"
    /\ taskState = <<>>
    /\ taskOut = <<>>
    /\ outqueue = <<>>
    /\ got = <<>>
    /\ data = EmptyDict
    /\ err = NoErr
    /\ output = NoOutput
    /\ evIn = EmptyDict
    /\ evOut = None
    /\ mgIn = <<>>
    /\ mgOut = NotRun

\* The results collected so far, in the order of the r.get() calls.
task_data == [k \in 1..Len(got) |-> taskOut[got[k]].value]

\* Results taken as the tasks complete instead of in list order.
next_get_any(collected, n) == (1..n) \ {collected[k] : k \in 1..Len(collected)}

\* [r.get() for r in parallel_results]: the next result asked for is that of
\* the next file of the list.
next_get(collected, n) == {Len(collected) + 1} \cap (1..n)

\* The comprehension ending after its first element.
collected_first(collected, n) == Len(collected) >= 1 \/ n = 0

\* The comprehension has run over every submitted task.
collected_all(collected, n) == Len(collected) = n

\* pool = mp.Pool(num_workers); one apply_async per input file.
Dispatch ==
    /\ pc = "start"
    /\ pc' = "collect"
    /\ taskState' = [i \in 1..Len(input_files) |-> "queued"]
    /\ taskOut' = [i \in 1..Len(input_files) |-> NotRun]
    /\ outqueue' = <<>>
    /\ UNCHANGED <<input_files, num_workers, got, data, err, output,
                   evIn, evOut, mgIn, mgOut>>

\* An idle worker takes the oldest queued task.
WorkerStart(i) ==
    /\ pc = "collect"
    /\ taskState[i] = "queued"
    /\ \A j \in 1..(i - 1) : taskState[j] # "queued"
    /\ Cardinality({j \in DOMAIN taskState : taskState[j] = "running"})
          < num_workers
    /\ taskState' = [taskState EXCEPT ![i] = "running"]
    /\ UNCHANGED <<input_files, num_workers, pc, taskOut, outqueue, got, data,
                   err, output, evIn, evOut, mgIn, mgOut>>

\* The worker runs filter_delphes_to_numpy on the file and posts the result.
WorkerFinish(i) ==
    /\ pc = "collect"
    /\ taskState[i] = "running"
    /\ taskState' = [taskState EXCEPT ![i] = "done"]
    /\ taskOut' = [taskOut EXCEPT ![i] = filter_delphes_to_numpy(input_files[i])]
    /\ outqueue' = Append(outqueue, i)
    /\ UNCHANGED <<input_files, num_workers, pc, got, data, err, output,
                   evIn, evOut, mgIn, mgOut>>

\* r.get() blocks until the task is done, then returns its value or raises
\* its exception again, which leaves process_files_parallel and main.
Get ==
    /\ pc = "collect"
    /\ ~collected_all(got, Len(input_files))
    /\ \E i \in next_get(got, Len(input_files)) :
          /\ taskState[i] = "done"
          /\ IF taskOut[i].kind = "raise"
             THEN /\ pc' = "raised"
                  /\ err' = [type |-> taskOut[i].err, at |-> "r.get"]
                  /\ got' = got
             ELSE /\ got' = Append(got, i)
                  /\ UNCHANGED <<pc, err>>
    /\ UNCHANGED <<input_files, num_workers, taskState, taskOut, outqueue, data,
                   output, evIn, evOut, mgIn, mgOut>>

\* pool.close(); pool.join() waits for the workers to finish what was
\* submitted; then the results are merged and returned to main.
Merge ==
    /\ pc = "collect"
    /\ collected_all(got, Len(input_files))
    /\ \A i \in DOMAIN taskState : taskState[i] = "done"
    /\ LET m == merge_results(task_data)
       IN  IF m.kind = "raise"
           THEN /\ pc' = "raised"
                /\ err' = [type |-> m.err, at |-> "merge_results"]
                /\ data' = data
           ELSE /\ pc' = "merged"
                /\ data' = m.value
                /\ err' = err
    /\ UNCHANGED <<input_files, num_workers, taskState, taskOut, outqueue, got,
                   output, evIn, evOut, mgIn, mgOut>>

\* if data['skimEvents'].sum() == 0: log and return. data['skimEvents']
\* raises KeyError on a dataset without that key.
CheckSkim ==
    /\ pc = "merged"
    /\ IF "skimEvents" \notin DOMAIN data
       THEN pc' = "raised" /\ err' = [type |-> "KeyError", at |-> "main"]
       ELSE IF SeqSum(data["skimEvents"]) = 0
       THEN pc' = "exited" /\ err' = err
       ELSE pc' = "write" /\ err' = err
    /\ UNCHANGED <<input_files, num_workers, taskState, taskOut, outqueue, got,
                   data, output, evIn, evOut, mgIn, mgOut>>

\* np.savez / np.savez_compressed when an output path was given; then Done.
WriteOutput ==
    /\ pc = "write"
    /\ \E output_npz \in BOOLEAN :
          output' = IF output_npz THEN [written |-> TRUE, cols |-> data]
                    ELSE NoOutput
    /\ pc' = "done"
    /\ UNCHANGED <<input_files, num_workers, taskState, taskOut, outqueue, got,
                   data, err, evIn, evOut, mgIn, mgOut>>

Next ==
    \/ Dispatch
    \/ \E i \in DOMAIN taskState : WorkerStart(i)
    \/ \E i \in DOMAIN taskState : WorkerFinish(i)
    \/ Get
    \/ Merge
    \/ CheckSkim
    \/ WriteOutput

Spec == Init /\ [][Next]_vars

----------------------------------------------------------------------------
(* Properties *)

NumFiles == Len(input_files)

\* An event passes the baseline when one of its jets passes the object
\* selection.
PassesBaseline(jets) ==
    \E j \in 1..Len(jets) : jets[j].pt = "hard" /\ jets[j].eta = "central"

\* The rows of file i that pass the baseline, in row order.
SurvivingRows(i) ==
    LET jets == input_files[i].jets
    IN  BoolIndex([r \in 1..Len(jets) |-> r],
                  [r \in 1..Len(jets) |-> PassesBaseline(jets[r])])

\* The files root2array can read, in the order of the input list.
ReadableFiles ==
    BoolIndex([i \in 1..NumFiles |-> i],
              [i \in 1..NumFiles |-> input_files[i].readable])

AllKnown ==
    \A i \in 1..NumFiles :
        input_files[i].readable => input_files[i].name[1] = KnownSample

\* process_files_parallel has returned its merged dataset to main.
DispatcherReturned ==
    \/ pc \in {"merged", "exited", "write", "done"}
    \/ pc = "raised" /\ err.at = "main"

\* merge_results has been called.
MergeInvoked == DispatcherReturned \/ (pc = "raised" /\ err.at = "merge_results")

PerEventKeys == BranchKeys \cup SkimKeys

\* The number of events of a reader table for which the baseline mask is true.
BaselineCount(table) ==
    Cardinality({r \in 1..Len(table["fatJetPt"]) :
        \E j \in 1..Len(table["fatJetPt"][r]) :
            /\ table["fatJetPt"][r][j] = "hard"
            /\ table["fatJetEta"][r][j] = "central"})

\* C1: the table process_events returns holds every reader column, the four
\* fatJet columns, sumFatJetM and the three region flags, each with as many
\* rows as there are events passing the baseline mask (zero included), and
\* the two bookkeeping columns totalEvents and skimEvents with one row each.
C1_ColumnLengths ==
    evOut # None =>
        /\ DOMAIN evOut.cols = PerEventKeys \cup {"totalEvents", "skimEvents"}
        /\ \A k \in PerEventKeys : Len(evOut.cols[k]) = BaselineCount(evIn)
        /\ Len(evOut.cols["totalEvents"]) = 1
        /\ Len(evOut.cols["skimEvents"]) = 1

\* A table of two events, neither passing the baseline, has been processed.
C1_Witness ==
    /\ evOut # None
    /\ Len(evIn["fatJetPt"]) = 2
    /\ BaselineCount(evIn) = 0

\* C2: in a batch with a file the reader cannot read, that file's task
\* returns None and raises nothing; the dispatcher raises only if a readable
\* file's sample is unknown; and the dataset it returns holds the rows of
\* every readable file: inputFile names the readable files and eventNumber
\* lists their surviving events.
C2_ReadFailureIsolated ==
    (\E u \in 1..NumFiles : ~input_files[u].readable) =>
        /\ \A i \in DOMAIN taskState :
              (taskState[i] = "done" /\ ~input_files[i].readable)
                  => taskOut[i] = Ret(None)
        /\ (pc = "raised" /\ err.at # "main") => ~AllKnown
        /\ (DispatcherReturned /\ ReadableFiles # <<>>) =>
              /\ data["inputFile"] =
                    [k \in 1..Len(ReadableFiles) |->
                        input_files[ReadableFiles[k]].name]
              /\ data["eventNumber"] =
                    Concat([k \in 1..Len(ReadableFiles) |->
                        LET i == ReadableFiles[k]
                            rows == SurvivingRows(i)
                        IN  [x \in 1..Len(rows) |-> <<i, rows[x]>>]])

\* The first file failed to read and the dataset still has the second
\* file's surviving event.
C2_Witness ==
    /\ pc = "merged"
    /\ NumFiles = 2
    /\ ~input_files[1].readable
    /\ input_files[2].readable
    /\ Len(data["eventNumber"]) >= 1

\* C3: when a readable file's sample is missing from the cross-section
\* table, main never gets a merged dataset and never writes the output file;
\* the run can only end with the KeyError re-raised by r.get(), and until
\* then main, the dispatcher or a worker (a running task can always finish)
\* can take a step.
C3_UnknownSampleAborts ==
    (\E i \in 1..NumFiles :
        input_files[i].readable /\ input_files[i].name[1] = UnknownSample) =>
        /\ output = NoOutput
        /\ ~DispatcherReturned
        /\ pc = "raised" => err = [type |-> "KeyError", at |-> "r.get"]
        /\ pc # "raised" =>
              \/ ENABLED (Dispatch \/ Get \/ \E i \in DOMAIN taskState : WorkerStart(i))
              \/ pc = "collect" /\ \E i \in DOMAIN taskState : taskState[i] = "running"

\* The batch aborted on its second file after the first, with surviving
\* events, had been collected.
C3_Witness ==
    /\ pc = "raised"
    /\ NumFiles = 2
    /\ input_files[1].readable
    /\ input_files[1].name[1] = KnownSample
    /\ SurvivingRows(1) # <<>>
    /\ got = <<1>>
    /\ input_files[2].readable
    /\ input_files[2].name[1] = UnknownSample
    /\ output = NoOutput

\* C4: once merge_results has been called, every submitted task is done and
\* has returned, and the list merged holds the result of every task.
C4_MergeAfterAllTasks ==
    MergeInvoked =>
        /\ \A i \in 1..NumFiles :
              taskState[i] = "done" /\ taskOut[i].kind = "return"
        /\ got = [i \in 1..NumFiles |-> i]

\* Two files were merged by a pool of one worker.
C4_Witness ==
    /\ pc = "merged"
    /\ num_workers = 1
    /\ NumFiles = 2

\* C5: every column of the merged dataset is the concatenation of the
\* readable files' arrays for that key in input-list order, whatever the
\* order in which the tasks completed.
C5_MergeInInputOrder ==
    DispatcherReturned =>
        \A key \in DOMAIN data :
            data[key] =
                Concat([k \in 1..Len(ReadableFiles) |->
                    taskOut[ReadableFiles[k]].value.cols[key]])

\* The second file's task completed before the first's, and both files
\* have rows in the merged dataset.
C5_Witness ==
    /\ pc = "merged"
    /\ outqueue = <<2, 1>>
    /\ SurvivingRows(1) # <<>>
    /\ SurvivingRows(2) # <<>>
    /\ Len(data["eventNumber"]) >= 2

\* C6: merge_results on a list of None only, of any length, returns the
\* empty dict and does not raise.
C6_AllFailedMergesEmpty ==
    (mgOut # NotRun /\ \A i \in 1..Len(mgIn) : mgIn[i] = None)
        => mgOut = Ret(EmptyDict)

\* A list of two None has been merged.
C6_Witness ==
    /\ mgOut # NotRun
    /\ mgIn = <<None, None>>

\* C7: a batch of at least one file in which every file fails to read, or
\* in which no event of any file passes the baseline, and no readable file
\* has an unknown sample, ends without an exception and without an output
\* file.
C7_DegenerateBatchNotAnError ==
    (/\ NumFiles >= 1
     /\ AllKnown
     /\ \A i \in 1..NumFiles :
           ~input_files[i].readable \/ SurvivingRows(i) = <<>>)
        => (pc # "raised" /\ output = NoOutput)

\* C8: when the dicts of the list (None dropped) do not all have the same
\* key set, merge_results raises and returns no dataset.
C8_KeyMismatchRaises ==
    (/\ mgOut # NotRun
     /\ \E i, j \in 1..Len(mgIn) :
           /\ mgIn[i] # None
           /\ mgIn[j] # None
           /\ DOMAIN mgIn[i].cols # DOMAIN mgIn[j].cols)
        => mgOut.kind = "raise"

\* A dict with both keys and a dict with one have been merged.
C8_Witness ==
    /\ mgOut = Raise("KeyError")
    /\ Len(mgIn) = 2
    /\ mgIn[1] # None
    /\ mgIn[2] # None
    /\ DOMAIN mgIn[1].cols = MergeKeys
    /\ DOMAIN mgIn[2].cols = {"skimEvents"}

\* C9: in a merged dataset with at least one readable file, skimEvents
\* holds each readable file's number of events with a jet passing the object
\* selection, totalEvents each readable file's number of events read, and
\* every per-event column has as many rows as skimEvents sums to.
C9_SkimEventsBookkeeping ==
    (DispatcherReturned /\ ReadableFiles # <<>>) =>
        /\ data["skimEvents"] =
              [k \in 1..Len(ReadableFiles) |->
                  Len(SurvivingRows(ReadableFiles[k]))]
        /\ data["totalEvents"] =
              [k \in 1..Len(ReadableFiles) |->
                  Len(input_files[ReadableFiles[k]].jets)]
        /\ \A key \in PerEventKeys :
              Len(data[key]) = SeqSum(data["skimEvents"])

\* Two files merged: both events of the first survive, the one event of the
\* second does not.
C9_Witness ==
    /\ pc = "merged"
    /\ NumFiles = 2
    /\ input_files[1].readable
    /\ input_files[2].readable
    /\ data["skimEvents"] = <<2, 0>>
    /\ data["totalEvents"] = <<2, 1>>
    /\ Len(data["fatJetPt"]) = 2

\* C10: a task raises only for a file that was read and whose sample is
\* unknown, and then it raises KeyError; the task of an unreadable file
\* returns None whatever its sample; and when every file with an unknown
\* sample is unreadable, no exception leaves process_files_parallel.
C10_ReadCheckBeforeXsec ==
    /\ \A i \in DOMAIN taskState :
          taskState[i] = "done" =>
              /\ ~input_files[i].readable => taskOut[i] = Ret(None)
              /\ taskOut[i].kind = "raise" =>
                    /\ input_files[i].readable
                    /\ input_files[i].name[1] = UnknownSample
                    /\ taskOut[i] = Raise("KeyError")
    /\ AllKnown => ~(pc = "raised" /\ err.at # "main")

\* An unreadable file with an unknown sample went through a batch that was
\* merged.
C10_Witness ==
    /\ pc = "merged"
    /\ \E i \in 1..NumFiles :
          /\ ~input_files[i].readable
          /\ input_files[i].name[1] = UnknownSample
          /\ taskOut[i] = Ret(None)

============================================================================
